---- MODULE Spec2Model ----
(***************************************************************************)
(* Knowledge Learning: the purchase, progress and certification views of   *)
(* learning/views.py over the tables of learning/models.py.                *)
(*                                                                         *)
(* Every view is one action: a request is handled as one unit of work.     *)
(* A view is written as an operator that gives, for a request in the       *)
(* current state, the response and the values the view leaves in the       *)
(* tables and the session; the action of the view assigns those values.    *)
(* Tables are bags of rows (the models declare no uniqueness constraint,   *)
(* so a table can hold the same row twice).  A DecimalField(decimal_places *)
(* = 2) is represented by its number of hundredths, so 26.00 is 2600.      *)
(***************************************************************************)
EXTENDS Integers, FiniteSets, Sequences, Bags, TLC

VARIABLES
    utilisateurs,    \* Utilisateur table: registered user -> [is_active]
    cursuses,        \* Cursus table: cursus id -> [theme, price]
    lessons,         \* Lesson table: lesson id -> [cursus, price]
    purchases,       \* Purchase table: bag of [utilisateur, cursus, lesson, amount]
    validations,     \* Validation table: bag of [utilisateur, lesson]
    certifications,  \* Certification table: bag of [utilisateur, theme]
    session,         \* request.session of each browser: [user, stripe_session_id, pending_purchase]
    stripe,          \* the provider's checkout sessions, by id: [unit_amount, payment_status, success_url]
    validate_posts,  \* history: the (user, lesson) pairs whose validate_lesson POST ran lines 387-418
    checkout_log,    \* history, where kept: the payment sessions cancelled, and those replaced in their browser
    in_flight        \* bag of the requests between their existence check (or lookup) and their create

vars == <<utilisateurs, cursuses, lessons, purchases, validations,
          certifications, session, stripe, validate_posts, checkout_log, in_flight>>

catalogue == <<cursuses, lessons>>
records == <<purchases, validations, certifications>>

----------------------------------------------------------------------------
(* Bounds and the universe of identifiers *)

None == "None"

\* No payment session id, and no pending purchase, in a request.session.
NoSessionId == 0
NoPending == [type |-> None, id |-> None]

Users == {"u1", "u2"}
Browsers == {"b1", "b2"}
Themes == {"t1", "t2"}
CursusIds == {"c1", "c2", "c3"}
LessonIds == {"l1", "l2", "l3", "l4"}

\* At most this many checkout sessions are created at the provider.
MaxStripeSessions == 2

\* Seeded catalogue: theme t1 holds c1 (l1, l2) and c2 (l3); theme t2 holds
\* c3, a cursus without lessons.  l4 does not exist until an administrator
\* adds it.
SeedCursusTheme == [c \in CursusIds |-> IF c = "c3" THEN "t2" ELSE "t1"]
SeedLessonCursus == [l \in {"l1", "l2", "l3"} |-> IF l = "l3" THEN "c2" ELSE "c1"]

\* Seeded prices, in hundredths: every cursus costs 50.00; l1 costs 20.00
\* and the other lessons 26.00.
SeedCursusPrice == [c \in CursusIds |-> 5000]
SeedLessonPrice == [l \in LessonIds |-> IF l = "l1" THEN 2000 ELSE 2600]

----------------------------------------------------------------------------
(* Table queries *)

\* Purchase.objects.filter(utilisateur=u, lesson=l).exists()
purchased_lesson(u, l) ==
    \E r \in BagToSet(purchases) : r.utilisateur = u /\ r.lesson = l

\* Purchase.objects.filter(utilisateur=u, cursus=c).exists()
purchased_cursus(u, c) ==
    \E r \in BagToSet(purchases) : r.utilisateur = u /\ r.cursus = c

\* Validation.objects.filter(utilisateur=u, lesson=l).exists()
is_completed(u, l) ==
    \E r \in BagToSet(validations) : r.utilisateur = u /\ r.lesson = l

\* Lesson.objects.filter(cursus=c)
lessons_of_cursus(c) == {l \in DOMAIN lessons : lessons[l].cursus = c}

\* Lesson.objects.filter(cursus__theme=t)
lessons_of_theme(t) == {l \in DOMAIN lessons : cursuses[lessons[l].cursus].theme = t}

RECURSIVE SumPrices(_)
\* sum(lesson.price for lesson in ls); the sum of nothing is 0
SumPrices(ls) ==
    IF ls = {} THEN 0
    ELSE LET l == CHOOSE x \in ls : TRUE
         IN  lessons[l].price + SumPrices(ls \ {l})

----------------------------------------------------------------------------
(* Entitlement and pricing *)

\* A has_access that forgets the purchase of the parent cursus.
has_access_lesson_only(u, l) == purchased_lesson(u, l)

\* has_access of view_lesson and validate_lesson: a Purchase of the lesson,
\* or a Purchase of the lesson's cursus.
has_access(u, l) ==
    purchased_lesson(u, l) \/ purchased_cursus(u, lessons[l].cursus)

\* purchased_lessons: the lessons of c that u bought one by one.
purchased_lessons(u, c) == {l \in lessons_of_cursus(c) : purchased_lesson(u, l)}

\* remaining_lessons = lessons.exclude(id__in=purchased_lessons)
remaining_lessons(u, c) == lessons_of_cursus(c) \ purchased_lessons(u, c)

\* A buy_cursus price without the adjustment for lessons already bought.
buy_cursus_catalog_price(u, c) == cursuses[c].price

\* A buy_cursus price by the rule of payment_success.
buy_cursus_price_of_remaining(u, c) ==
    IF remaining_lessons(u, c) # {}
    THEN SumPrices(remaining_lessons(u, c))
    ELSE 0

\* adjusted_price as buy_cursus computes it before it creates the session.
buy_cursus_adjusted_price(u, c) ==
    IF remaining_lessons(u, c) # {} /\ purchased_lessons(u, c) # {}
    THEN SumPrices(remaining_lessons(u, c))
    ELSE cursuses[c].price

\* adjusted_price as payment_success computes it for the Purchase row.
payment_success_adjusted_price(u, c) ==
    IF remaining_lessons(u, c) # {}
    THEN SumPrices(remaining_lessons(u, c))
    ELSE 0

\* int(price * 100): the price in minor currency units.  A price is held
\* here as its number of hundredths, which is that integer.
unit_amount(price) == price

----------------------------------------------------------------------------
(* Progress and certification *)

\* validated_lessons_in_theme: values_list('lesson').distinct()
validated_lessons_in_theme(u, t) == {l \in lessons_of_theme(t) : is_completed(u, l)}

\* validated_lessons_in_cursus
validated_lessons_in_cursus(u, c) == {l \in lessons_of_cursus(c) : is_completed(u, l)}

\* The set comparison of validate_lesson for the cursus (message only).
cursus_complete(u, c) == lessons_of_cursus(c) = validated_lessons_in_cursus(u, c)

\* A theme comparison by inclusion instead of equality.
theme_complete_subset(u, t) == validated_lessons_in_theme(u, t) \subseteq lessons_of_theme(t)

\* A theme comparison that looks at the lessons of one cursus only.
theme_complete_some_cursus(u, t) ==
    \E c \in DOMAIN cursuses :
        /\ cursuses[c].theme = t
        /\ lessons_of_cursus(c) # {}
        /\ cursus_complete(u, c)

\* The set comparison of validate_lesson that decides the Certification.
theme_complete(u, t) == lessons_of_theme(t) = validated_lessons_in_theme(u, t)

\* Validation.objects.get_or_create(utilisateur=u, lesson=l)
validation_get_or_create(u, l) ==
    IF is_completed(u, l) THEN validations
    ELSE validations (+) SetToBag({[utilisateur |-> u, lesson |-> l]})

\* A mark_completed that creates its row without looking for one.
mark_completed_create(u, l) ==
    validations (+) SetToBag({[utilisateur |-> u, lesson |-> l]})

\* The Validation table after view_lesson's mark_completed branch.
mark_completed(u, l) ==
    IF ~is_completed(u, l) THEN validation_get_or_create(u, l) ELSE validations

\* Certification.objects.create in place of get_or_create.
certification_create(u, t) ==
    certifications (+) SetToBag({[utilisateur |-> u, theme |-> t]})

\* Certification.objects.get_or_create(utilisateur=u, theme=t)
certification_get_or_create(u, t) ==
    IF \E r \in BagToSet(certifications) : r.utilisateur = u /\ r.theme = t
    THEN certifications
    ELSE certifications (+) SetToBag({[utilisateur |-> u, theme |-> t]})

\* A certify that withdraws the Certification of a theme found incomplete.
certify_or_revoke(u, t) ==
    IF theme_complete(u, t) THEN certification_get_or_create(u, t)
    ELSE [r \in {x \in DOMAIN certifications :
                    ~(x.utilisateur = u /\ x.theme = t)} |-> certifications[r]]

\* The Certification table after validate_lesson's POST branch for a lesson
\* of theme t.
certify(u, t) ==
    IF theme_complete(u, t) THEN certification_get_or_create(u, t)
    ELSE certifications

----------------------------------------------------------------------------
(* Sessions and the provider *)

\* A request.session without keys: nobody logged in, no pending intent.
EmptySession ==
    [user |-> None, stripe_session_id |-> NoSessionId, pending_purchase |-> NoPending]

\* request.user: the user the session was opened for, activated or not
\* (None when nobody is logged in).  A session outlives the activation flag
\* of its user, and the views are what turns an inactive user away.
request_user(b) == session[b].user

\* django.contrib.auth.login: the session data is dropped when it belonged
\* to another user, and kept otherwise.
auth_login(s, u) ==
    IF s.user \in {None, u} THEN [s EXCEPT !.user = u]
    ELSE [EmptySession EXCEPT !.user = u]

\* stripe.checkout.Session.create: a new session, not yet paid; its id is
\* its place in the provider's list.
stripe_create(amount, kind, id) ==
    Append(stripe, [unit_amount |-> amount, payment_status |-> "unpaid",
                    success_url |-> [type |-> kind, id |-> id]])

----------------------------------------------------------------------------
(* Accounts *)

\* RegistrationForm.is_valid: the fields are well formed and the username
\* is not taken.
form_is_valid(u, fields_ok) == fields_ok /\ u \notin DOMAIN utilisateurs

\* RegistrationForm.save: the Utilisateur row of a registration.
registration_save == [is_active |-> FALSE]

\* register, POST: a valid form creates the user; nobody is logged in.
Register(u, fields_ok) ==
    IF form_is_valid(u, fields_ok)
    THEN /\ utilisateurs' = [x \in DOMAIN utilisateurs \cup {u} |->
                               IF x = u THEN registration_save ELSE utilisateurs[x]]
         /\ UNCHANGED <<catalogue, records, session, stripe, validate_posts, checkout_log, in_flight>>
    ELSE UNCHANGED vars

\* activate with every token taken as valid.
activate_any_token(b, uid, token_ok) ==
    IF uid \in DOMAIN utilisateurs
    THEN [to |-> "home",
          utilisateurs |-> [utilisateurs EXCEPT ![uid].is_active = TRUE],
          session |-> auth_login(session[b], uid)]
    ELSE [to |-> "activation_invalid", utilisateurs |-> utilisateurs,
          session |-> session[b]]

\* activate: uid names the user of the link, token_ok is the verdict of
\* default_token_generator.check_token for that user.  The result is where
\* the response leads, and the Utilisateur table and the session it leaves.
activate(b, uid, token_ok) ==
    IF uid \in DOMAIN utilisateurs /\ token_ok
    THEN [to |-> "home",
          utilisateurs |-> [utilisateurs EXCEPT ![uid].is_active = TRUE],
          session |-> auth_login(session[b], uid)]
    ELSE [to |-> "activation_invalid", utilisateurs |-> utilisateurs,
          session |-> session[b]]

Activate(b, uid, token_ok) ==
    LET result == activate(b, uid, token_ok) IN
    /\ utilisateurs' = result.utilisateurs
    /\ session' = [session EXCEPT ![b] = result.session]
    /\ UNCHANGED <<catalogue, records, stripe, validate_posts, checkout_log, in_flight>>

\* LoginView: the authentication form admits active users only.
Login(b, u) ==
    /\ u \in DOMAIN utilisateurs
    /\ utilisateurs[u].is_active
    /\ session' = [session EXCEPT ![b] = auth_login(session[b], u)]
    /\ UNCHANGED <<utilisateurs, catalogue, records, stripe, validate_posts, checkout_log, in_flight>>

\* user_logout: logout() flushes the session.
UserLogout(b) ==
    /\ session' = [session EXCEPT ![b] = EmptySession]
    /\ UNCHANGED <<utilisateurs, catalogue, records, stripe, validate_posts, checkout_log, in_flight>>

----------------------------------------------------------------------------
(* Checkout *)

\* What a checkout view returns: where the response leads (a redirect
\* target or a rendered template), the message queued with
\* messages.error/success/info, and the provider's sessions, the
\* request.session and the Purchase table as the view leaves them.
CheckoutResult(b, to, message) ==
    [to |-> to, message |-> message, stripe |-> stripe, session |-> session[b],
     purchases |-> purchases]

\* A buy_cursus that stores the pending intent before it calls the provider.
buy_cursus_intent_first(b, cursus_id, method, provider_ok) ==
    LET u == request_user(b)
        intent == [type |-> "cursus", id |-> cursus_id]
    IN
    IF u = None THEN CheckoutResult(b, "login", None)
    ELSE IF cursus_id \notin DOMAIN cursuses THEN CheckoutResult(b, "404", None)
    ELSE IF ~utilisateurs[u].is_active
    THEN CheckoutResult(b, "home", "account_not_activated")
    ELSE IF purchased_cursus(u, cursus_id)
    THEN CheckoutResult(b, "list_cursuses", "cursus_already_purchased")
    ELSE IF method = "POST"
    THEN IF provider_ok
         THEN [CheckoutResult(b, "stripe", None) EXCEPT
                  !.stripe = stripe_create(
                                unit_amount(buy_cursus_adjusted_price(u, cursus_id)),
                                "cursus", cursus_id),
                  !.session = [session[b] EXCEPT
                                  !.stripe_session_id = Len(stripe) + 1,
                                  !.pending_purchase = intent]]
         ELSE [CheckoutResult(b, "home", "payment_error") EXCEPT
                  !.session = [session[b] EXCEPT !.pending_purchase = intent]]
    ELSE CheckoutResult(b, "buy_cursus.html", None)

\* buy_cursus.  provider_ok: stripe.checkout.Session.create returns (TRUE)
\* or raises (FALSE).
buy_cursus(b, cursus_id, method, provider_ok) ==
    LET u == request_user(b) IN
    IF u = None THEN CheckoutResult(b, "login", None)
    ELSE IF cursus_id \notin DOMAIN cursuses THEN CheckoutResult(b, "404", None)
    ELSE IF ~utilisateurs[u].is_active
    THEN CheckoutResult(b, "home", "account_not_activated")
    ELSE IF purchased_cursus(u, cursus_id)
    THEN CheckoutResult(b, "list_cursuses", "cursus_already_purchased")
    ELSE IF method = "POST"
    THEN IF provider_ok
         THEN [CheckoutResult(b, "stripe", None) EXCEPT
                  !.stripe = stripe_create(
                                unit_amount(buy_cursus_adjusted_price(u, cursus_id)),
                                "cursus", cursus_id),
                  !.session = [session[b] EXCEPT
                                  !.stripe_session_id = Len(stripe) + 1,
                                  !.pending_purchase = [type |-> "cursus", id |-> cursus_id]]]
         ELSE CheckoutResult(b, "home", "payment_error")
    ELSE CheckoutResult(b, "buy_cursus.html", None)

\* A buy_lesson that writes the Purchase row when it creates the session.
buy_lesson_recording(b, lesson_id, method, provider_ok) ==
    LET u == request_user(b) IN
    IF u = None THEN CheckoutResult(b, "login", None)
    ELSE IF lesson_id \notin DOMAIN lessons THEN CheckoutResult(b, "404", None)
    ELSE IF ~utilisateurs[u].is_active
    THEN CheckoutResult(b, "home", "account_not_activated")
    ELSE IF purchased_lesson(u, lesson_id)
    THEN CheckoutResult(b, "list_cursuses", "lesson_already_purchased")
    ELSE IF purchased_cursus(u, lessons[lesson_id].cursus)
    THEN CheckoutResult(b, "list_cursuses", "cursus_already_purchased")
    ELSE IF method = "POST"
    THEN IF provider_ok
         THEN [CheckoutResult(b, "stripe", None) EXCEPT
                  !.stripe = stripe_create(unit_amount(lessons[lesson_id].price),
                                           "lesson", lesson_id),
                  !.session = [session[b] EXCEPT
                                  !.stripe_session_id = Len(stripe) + 1,
                                  !.pending_purchase = [type |-> "lesson", id |-> lesson_id]],
                  !.purchases = purchases (+) SetToBag({[utilisateur |-> u,
                                   cursus |-> None, lesson |-> lesson_id,
                                   amount |-> lessons[lesson_id].price]})]
         ELSE CheckoutResult(b, "home", "payment_error")
    ELSE CheckoutResult(b, "buy_lesson.html", None)

\* A buy_lesson that does not look for the Purchase of the parent cursus.
buy_lesson_no_cursus_check(b, lesson_id, method, provider_ok) ==
    LET u == request_user(b) IN
    IF u = None THEN CheckoutResult(b, "login", None)
    ELSE IF lesson_id \notin DOMAIN lessons THEN CheckoutResult(b, "404", None)
    ELSE IF ~utilisateurs[u].is_active
    THEN CheckoutResult(b, "home", "account_not_activated")
    ELSE IF purchased_lesson(u, lesson_id)
    THEN CheckoutResult(b, "list_cursuses", "lesson_already_purchased")
    ELSE IF method = "POST"
    THEN IF provider_ok
         THEN [CheckoutResult(b, "stripe", None) EXCEPT
                  !.stripe = stripe_create(unit_amount(lessons[lesson_id].price),
                                           "lesson", lesson_id),
                  !.session = [session[b] EXCEPT
                                  !.stripe_session_id = Len(stripe) + 1,
                                  !.pending_purchase = [type |-> "lesson", id |-> lesson_id]]]
         ELSE CheckoutResult(b, "home", "payment_error")
    ELSE CheckoutResult(b, "buy_lesson.html", None)

\* A buy_lesson that does not look at the activation flag.
buy_lesson_any_account(b, lesson_id, method, provider_ok) ==
    LET u == request_user(b) IN
    IF u = None THEN CheckoutResult(b, "login", None)
    ELSE IF lesson_id \notin DOMAIN lessons THEN CheckoutResult(b, "404", None)
    ELSE IF purchased_lesson(u, lesson_id)
    THEN CheckoutResult(b, "list_cursuses", "lesson_already_purchased")
    ELSE IF purchased_cursus(u, lessons[lesson_id].cursus)
    THEN CheckoutResult(b, "list_cursuses", "cursus_already_purchased")
    ELSE IF method = "POST"
    THEN IF provider_ok
         THEN [CheckoutResult(b, "stripe", None) EXCEPT
                  !.stripe = stripe_create(unit_amount(lessons[lesson_id].price),
                                           "lesson", lesson_id),
                  !.session = [session[b] EXCEPT
                                  !.stripe_session_id = Len(stripe) + 1,
                                  !.pending_purchase = [type |-> "lesson", id |-> lesson_id]]]
         ELSE CheckoutResult(b, "home", "payment_error")
    ELSE CheckoutResult(b, "buy_lesson.html", None)

\* buy_lesson.
buy_lesson(b, lesson_id, method, provider_ok) ==
    LET u == request_user(b) IN
    IF u = None THEN CheckoutResult(b, "login", None)
    ELSE IF lesson_id \notin DOMAIN lessons THEN CheckoutResult(b, "404", None)
    ELSE IF ~utilisateurs[u].is_active
    THEN CheckoutResult(b, "home", "account_not_activated")
    ELSE IF purchased_lesson(u, lesson_id)
    THEN CheckoutResult(b, "list_cursuses", "lesson_already_purchased")
    ELSE IF purchased_cursus(u, lessons[lesson_id].cursus)
    THEN CheckoutResult(b, "list_cursuses", "cursus_already_purchased")
    ELSE IF method = "POST"
    THEN IF provider_ok
         THEN [CheckoutResult(b, "stripe", None) EXCEPT
                  !.stripe = stripe_create(unit_amount(lessons[lesson_id].price),
                                           "lesson", lesson_id),
                  !.session = [session[b] EXCEPT
                                  !.stripe_session_id = Len(stripe) + 1,
                                  !.pending_purchase = [type |-> "lesson", id |-> lesson_id]]]
         ELSE CheckoutResult(b, "home", "payment_error")
    ELSE CheckoutResult(b, "buy_lesson.html", None)

\* A payment check that accepts any status.
payment_verified_any(sid) == TRUE

\* session.payment_status != 'paid' sends the request away.
payment_verified(sid) == stripe[sid].payment_status = "paid"

\* A lesson branch with its existence test inverted: the row is created
\* only where one is found.
record_lesson_purchase_inverted(u, l) ==
    IF purchased_lesson(u, l)
    THEN purchases (+) SetToBag({[utilisateur |-> u, cursus |-> None, lesson |-> l,
                                 amount |-> lessons[l].price]})
    ELSE purchases

\* A lesson Purchase created without the existence check.
record_lesson_purchase_unguarded(u, l) ==
    purchases (+) SetToBag({[utilisateur |-> u, cursus |-> None, lesson |-> l,
                            amount |-> lessons[l].price]})

\* The Purchase table after payment_success's lesson branch.
record_lesson_purchase(u, l) ==
    IF ~purchased_lesson(u, l)
    THEN purchases (+) SetToBag({[utilisateur |-> u, cursus |-> None, lesson |-> l,
                                 amount |-> lessons[l].price]})
    ELSE purchases

\* A cursus Purchase that replaces the user's Purchases of its lessons.
record_cursus_purchase_replacing(u, c) ==
    IF ~purchased_cursus(u, c)
    THEN [r \in {x \in DOMAIN purchases :
                    ~(x.utilisateur = u /\ x.lesson \in lessons_of_cursus(c))}
              |-> purchases[r]]
         (+) SetToBag({[utilisateur |-> u, cursus |-> c, lesson |-> None,
                        amount |-> payment_success_adjusted_price(u, c)]})
    ELSE purchases

\* The Purchase table after payment_success's cursus branch.
record_cursus_purchase(u, c) ==
    IF ~purchased_cursus(u, c)
    THEN purchases (+) SetToBag({[utilisateur |-> u, cursus |-> c, lesson |-> None,
                                 amount |-> payment_success_adjusted_price(u, c)]})
    ELSE purchases

\* An end of payment_success that pops the session id and leaves the intent.
pop_session_id_only(s) == [s EXCEPT !.stripe_session_id = NoSessionId]

\* The two session.pop calls that end payment_success.
pop_pending(s) ==
    [s EXCEPT !.stripe_session_id = NoSessionId, !.pending_purchase = NoPending]

\* A payment_success that calls the provider before it looks at the session
\* keys.
payment_success_retrieve_first(b, retrieve_ok) ==
    LET u == request_user(b)
        session_id == session[b].stripe_session_id
        pending_purchase == session[b].pending_purchase
    IN
    IF ~retrieve_ok
    THEN CheckoutResult(b, "home", "stripe_error")
    ELSE IF session_id = NoSessionId \/ pending_purchase = NoPending
    THEN CheckoutResult(b, "home", "no_pending_purchase")
    ELSE IF ~payment_verified(session_id)
    THEN CheckoutResult(b, "home", "payment_not_finalised")
    ELSE IF pending_purchase.type = "lesson"
    THEN [CheckoutResult(b, "home",
              IF ~purchased_lesson(u, pending_purchase.id)
              THEN "payment_succeeded" ELSE "already_purchased")
          EXCEPT !.purchases = record_lesson_purchase(u, pending_purchase.id),
                 !.session = pop_pending(session[b])]
    ELSE [CheckoutResult(b, "home",
              IF ~purchased_cursus(u, pending_purchase.id)
              THEN "payment_succeeded" ELSE "already_purchased")
          EXCEPT !.purchases = record_cursus_purchase(u, pending_purchase.id),
                 !.session = pop_pending(session[b])]

\* payment_success.  retrieve_ok: stripe.checkout.Session.retrieve returns
\* (TRUE) or raises a StripeError (FALSE).
payment_success(b, retrieve_ok) ==
    LET u == request_user(b)
        session_id == session[b].stripe_session_id
        pending_purchase == session[b].pending_purchase
    IN
    IF session_id = NoSessionId \/ pending_purchase = NoPending
    THEN CheckoutResult(b, "home", "no_pending_purchase")
    ELSE IF ~retrieve_ok
    THEN CheckoutResult(b, "home", "stripe_error")
    ELSE IF ~payment_verified(session_id)
    THEN CheckoutResult(b, "home", "payment_not_finalised")
    ELSE IF pending_purchase.type = "lesson"
    THEN IF pending_purchase.id \notin DOMAIN lessons
         THEN CheckoutResult(b, "404", None)
         ELSE [CheckoutResult(b, "home",
                   IF ~purchased_lesson(u, pending_purchase.id)
                   THEN "payment_succeeded" ELSE "already_purchased")
               EXCEPT !.purchases = record_lesson_purchase(u, pending_purchase.id),
                      !.session = pop_pending(session[b])]
    ELSE IF pending_purchase.type = "cursus"
    THEN IF pending_purchase.id \notin DOMAIN cursuses
         THEN CheckoutResult(b, "404", None)
         ELSE [CheckoutResult(b, "home",
                   IF ~purchased_cursus(u, pending_purchase.id)
                   THEN "payment_succeeded" ELSE "already_purchased")
               EXCEPT !.purchases = record_cursus_purchase(u, pending_purchase.id),
                      !.session = pop_pending(session[b])]
    ELSE CheckoutResult(b, "home", "invalid_purchase_type")

\* The query string of a request to the success URL: the lesson_id or the
\* cursus_id that buy_lesson and buy_cursus put on it, as the browser sends
\* it, edited or not; NoPending when the request carries neither.
Queries ==
    {[type |-> "lesson", id |-> l] : l \in LessonIds}
        \cup {[type |-> "cursus", id |-> c] : c \in CursusIds}
        \cup {NoPending}

\* A payment_success that takes its target from the query string when the
\* request carries one.
payment_success_from_url(b, query, retrieve_ok) ==
    LET u == request_user(b)
        session_id == session[b].stripe_session_id
        pending_purchase == IF query # NoPending THEN query
                            ELSE session[b].pending_purchase
    IN
    IF session_id = NoSessionId \/ session[b].pending_purchase = NoPending
    THEN CheckoutResult(b, "home", "no_pending_purchase")
    ELSE IF ~retrieve_ok
    THEN CheckoutResult(b, "home", "stripe_error")
    ELSE IF ~payment_verified(session_id)
    THEN CheckoutResult(b, "home", "payment_not_finalised")
    ELSE IF pending_purchase.type = "lesson"
    THEN IF pending_purchase.id \notin DOMAIN lessons
         THEN CheckoutResult(b, "404", None)
         ELSE [CheckoutResult(b, "home",
                   IF ~purchased_lesson(u, pending_purchase.id)
                   THEN "payment_succeeded" ELSE "already_purchased")
               EXCEPT !.purchases = record_lesson_purchase(u, pending_purchase.id),
                      !.session = pop_pending(session[b])]
    ELSE IF pending_purchase.id \notin DOMAIN cursuses
         THEN CheckoutResult(b, "404", None)
         ELSE [CheckoutResult(b, "home",
                   IF ~purchased_cursus(u, pending_purchase.id)
                   THEN "payment_succeeded" ELSE "already_purchased")
               EXCEPT !.purchases = record_cursus_purchase(u, pending_purchase.id),
                      !.session = pop_pending(session[b])]

\* payment_success for a request to the success URL with query string
\* query: the view reads request.session, and request.GET nowhere.
payment_success_request(b, query, retrieve_ok) == payment_success(b, retrieve_ok)

\* payment_cancel: a message and a redirect.
payment_cancel(b) == CheckoutResult(b, "home", "payment_cancelled")

\* The history after a checkout view has answered browser b, in the
\* specifications that keep it.  A payment
\* session is cancelled when payment_cancel answers the browser that holds
\* it, still unpaid, as its pending checkout; it is replaced when the view
\* stores another payment session over it in that browser.
CheckoutLog(b, result) ==
    LET sid == session[b].stripe_session_id IN
    IF ~checkout_log.kept \/ sid = NoSessionId THEN checkout_log
    ELSE IF result.message = "payment_cancelled" /\ stripe[sid].payment_status # "paid"
    THEN [checkout_log EXCEPT !.cancelled = @ \cup {sid}]
    ELSE IF result.session.stripe_session_id \notin {sid, NoSessionId}
    THEN [checkout_log EXCEPT !.replaced = @ \cup {<<sid, session[b].user>>}]
    ELSE checkout_log

\* A checkout view handles a request: its result becomes the state.
Checkout(b, result) ==
    /\ stripe' = result.stripe
    /\ session' = [session EXCEPT ![b] = result.session]
    /\ purchases' = result.purchases
    /\ checkout_log' = CheckoutLog(b, result)
    /\ UNCHANGED <<utilisateurs, catalogue, validations, certifications, validate_posts, in_flight>>

BuyCursus(b, cursus_id, method, provider_ok) ==
    /\ (method = "POST" /\ provider_ok) => Len(stripe) < MaxStripeSessions
    /\ Checkout(b, buy_cursus(b, cursus_id, method, provider_ok))

BuyLesson(b, lesson_id, method, provider_ok) ==
    /\ (method = "POST" /\ provider_ok) => Len(stripe) < MaxStripeSessions
    /\ Checkout(b, buy_lesson(b, lesson_id, method, provider_ok))

PaymentSuccess(b, retrieve_ok) == Checkout(b, payment_success(b, retrieve_ok))

\* A request to the success URL with query string query.
PaymentSuccessRequest(b, query, retrieve_ok) ==
    Checkout(b, payment_success_request(b, query, retrieve_ok))

PaymentCancel(b) == Checkout(b, payment_cancel(b))

\* The customer pays on the provider's hosted page the view redirected to.
Pay(sid) ==
    /\ sid \in 1..Len(stripe)
    /\ stripe[sid].payment_status = "unpaid"
    /\ stripe' = [stripe EXCEPT ![sid].payment_status = "paid"]
    /\ UNCHANGED <<utilisateurs, catalogue, records, session, validate_posts, checkout_log, in_flight>>

----------------------------------------------------------------------------
(* Overlapping confirmations *)

\* At most this many payment_success requests are between their existence
\* check and their create at a time.
MaxInFlight == 2

\* A payment_success request that found no Purchase of its target (line 242
\* or 255) and has not created the row yet: the browser it came from and
\* the request.session it loaded.
in_flight_request(b) == [browser |-> b, session |-> session[b]]

\* Purchase.objects.create of payment_success, for the intent the request
\* loaded: the lesson at its price, the cursus at the adjusted price the
\* request computes before the create.
purchase_create(u, pending_purchase) ==
    IF pending_purchase.type = "lesson"
    THEN purchases (+) SetToBag({[utilisateur |-> u, cursus |-> None,
                                 lesson |-> pending_purchase.id,
                                 amount |-> lessons[pending_purchase.id].price]})
    ELSE purchases (+) SetToBag({[utilisateur |-> u, cursus |-> pending_purchase.id,
                                 lesson |-> None,
                                 amount |-> payment_success_adjusted_price(
                                                u, pending_purchase.id)]})

\* payment_success up to its existence check.  A request that is turned away
\* or finds the Purchase ends here, as a whole; one that finds no Purchase
\* is in flight, and has written nothing yet.
PaymentSuccessCheck(b, retrieve_ok) ==
    LET result == payment_success(b, retrieve_ok) IN
    IF result.message = "payment_succeeded"
    THEN /\ BagCardinality(in_flight) < MaxInFlight
         /\ in_flight' = in_flight (+) SetToBag({in_flight_request(b)})
         /\ UNCHANGED <<utilisateurs, catalogue, records, session, stripe,
                        validate_posts, checkout_log>>
    ELSE Checkout(b, result)

\* payment_success from its create to its end: the row is created without
\* another look at the table, and the session the request loaded is saved
\* with the two keys popped.
PaymentSuccessCreate(r) ==
    /\ BagIn(r, in_flight)
    /\ purchases' = purchase_create(r.session.user, r.session.pending_purchase)
    /\ session' = [session EXCEPT ![r.browser] = pop_pending(r.session)]
    /\ in_flight' = in_flight (-) SetToBag({r})
    /\ UNCHANGED <<utilisateurs, catalogue, validations, certifications, stripe,
                   validate_posts, checkout_log>>

----------------------------------------------------------------------------
(* Progress *)

\* What a progress view returns: where the response leads, the message, the
\* is_completed it read from the Validation table ("unread" when the view
\* returned before that query), and the Validation and Certification tables
\* as the view leaves them; validated tells that the request ran the POST
\* branch of validate_lesson.
ProgressResult(to, message, progress) ==
    [to |-> to, message |-> message, progress |-> progress,
     validations |-> validations, certifications |-> certifications,
     validated |-> FALSE]

\* What the is_completed query of view_lesson and validate_lesson returns.
Progress(u, l) == IF is_completed(u, l) THEN "completed" ELSE "not_completed"

\* A view_lesson without the has_access gate.
view_lesson_no_access_check(b, lesson_id, method, mark) ==
    LET u == request_user(b) IN
    IF u = None THEN ProgressResult("login", None, "unread")
    ELSE IF lesson_id \notin DOMAIN lessons THEN ProgressResult("404", None, "unread")
    ELSE IF ~utilisateurs[u].is_active
    THEN ProgressResult("home", "account_not_activated", "unread")
    ELSE IF method = "POST" /\ mark
    THEN [ProgressResult("view_lesson",
              IF ~is_completed(u, lesson_id) THEN "marked_completed" ELSE None,
              Progress(u, lesson_id))
          EXCEPT !.validations = mark_completed(u, lesson_id)]
    ELSE ProgressResult("view_lesson.html", None, Progress(u, lesson_id))

\* view_lesson.  mark: 'mark_completed' is among the POST fields.
view_lesson(b, lesson_id, method, mark) ==
    LET u == request_user(b) IN
    IF u = None THEN ProgressResult("login", None, "unread")
    ELSE IF lesson_id \notin DOMAIN lessons THEN ProgressResult("404", None, "unread")
    ELSE IF ~utilisateurs[u].is_active
    THEN ProgressResult("home", "account_not_activated", "unread")
    ELSE IF ~has_access(u, lesson_id)
    THEN ProgressResult("home", "purchase_required", "unread")
    ELSE IF method = "POST" /\ mark
    THEN [ProgressResult("view_lesson",
              IF ~is_completed(u, lesson_id) THEN "marked_completed" ELSE None,
              Progress(u, lesson_id))
          EXCEPT !.validations = mark_completed(u, lesson_id)]
    ELSE ProgressResult("view_lesson.html", None, Progress(u, lesson_id))

\* A validate_lesson without the is_completed precondition.
validate_lesson_ungated(b, lesson_id, method) ==
    LET u == request_user(b) IN
    IF u = None THEN ProgressResult("login", None, "unread")
    ELSE IF lesson_id \notin DOMAIN lessons THEN ProgressResult("404", None, "unread")
    ELSE IF ~utilisateurs[u].is_active
    THEN ProgressResult("home", "account_not_activated", "unread")
    ELSE IF ~has_access(u, lesson_id)
    THEN ProgressResult("home", "purchase_required", "unread")
    ELSE IF method = "POST"
    THEN LET theme == cursuses[lessons[lesson_id].cursus].theme IN
         [ProgressResult("home",
              IF theme_complete(u, theme) THEN "certification_earned"
              ELSE "lesson_validated",
              Progress(u, lesson_id))
          EXCEPT !.certifications = certify(u, theme),
                 !.validated = TRUE]
    ELSE ProgressResult("validate_lesson.html", None, Progress(u, lesson_id))

\* validate_lesson.
validate_lesson(b, lesson_id, method) ==
    LET u == request_user(b) IN
    IF u = None THEN ProgressResult("login", None, "unread")
    ELSE IF lesson_id \notin DOMAIN lessons THEN ProgressResult("404", None, "unread")
    ELSE IF ~utilisateurs[u].is_active
    THEN ProgressResult("home", "account_not_activated", "unread")
    ELSE IF ~has_access(u, lesson_id)
    THEN ProgressResult("home", "purchase_required", "unread")
    ELSE IF ~is_completed(u, lesson_id)
    THEN ProgressResult("view_lesson", "not_completed", Progress(u, lesson_id))
    ELSE IF method = "POST"
    THEN LET theme == cursuses[lessons[lesson_id].cursus].theme IN
         [ProgressResult("home",
              IF theme_complete(u, theme) THEN "certification_earned"
              ELSE "lesson_validated",
              Progress(u, lesson_id))
          EXCEPT !.certifications = certify(u, theme),
                 !.validated = TRUE]
    ELSE ProgressResult("validate_lesson.html", None, Progress(u, lesson_id))

\* A progress view handles a request: its result becomes the state.
ProgressRequest(b, lesson_id, result) ==
    /\ validations' = result.validations
    /\ certifications' = result.certifications
    /\ validate_posts' = IF result.validated
                         THEN validate_posts \cup {<<session[b].user, lesson_id>>}
                         ELSE validate_posts
    /\ UNCHANGED <<utilisateurs, catalogue, purchases, session, stripe, checkout_log, in_flight>>

ViewLesson(b, lesson_id, method, mark) ==
    ProgressRequest(b, lesson_id, view_lesson(b, lesson_id, method, mark))

ValidateLesson(b, lesson_id, method) ==
    ProgressRequest(b, lesson_id, validate_lesson(b, lesson_id, method))

----------------------------------------------------------------------------
(* Overlapping progress requests *)

\* A progress request whose get_or_create looked for its row, found none
\* and has not created it yet.
in_flight_progress(view, u, lesson_id) ==
    [view |-> view, user |-> u, lesson |-> lesson_id]

\* The create of Validation.objects.get_or_create, after its get found no
\* row.
validation_objects_create(u, l) ==
    validations (+) SetToBag({[utilisateur |-> u, lesson |-> l]})

\* The create of Certification.objects.get_or_create, after its get found
\* no row.
certification_objects_create(u, t) ==
    certifications (+) SetToBag({[utilisateur |-> u, theme |-> t]})

\* view_lesson with mark_completed, up to the lookup of get_or_create.  A
\* request that is turned away or finds the Validation ends here, as a
\* whole; one that finds none is in flight.
MarkCompletedLookup(b, lesson_id) ==
    LET result == view_lesson(b, lesson_id, "POST", TRUE) IN
    IF result.message = "marked_completed"
    THEN /\ BagCardinality(in_flight) < MaxInFlight
         /\ in_flight' = in_flight (+) SetToBag(
                {in_flight_progress("view_lesson", request_user(b), lesson_id)})
         /\ UNCHANGED <<utilisateurs, catalogue, records, session, stripe,
                        validate_posts, checkout_log>>
    ELSE ProgressRequest(b, lesson_id, result)

\* validate_lesson, POST, up to the lookup of get_or_create.  A request
\* that does not reach get_or_create, or finds the Certification, ends here,
\* as a whole; one that finds none is in flight.
ValidateLessonLookup(b, lesson_id) ==
    LET result == validate_lesson(b, lesson_id, "POST") IN
    IF result.certifications # certifications
    THEN /\ BagCardinality(in_flight) < MaxInFlight
         /\ in_flight' = in_flight (+) SetToBag(
                {in_flight_progress("validate_lesson", request_user(b), lesson_id)})
         /\ UNCHANGED <<utilisateurs, catalogue, records, session, stripe,
                        validate_posts, checkout_log>>
    ELSE ProgressRequest(b, lesson_id, result)

\* The rest of a request in flight: the row is created without another
\* look at the table.
GetOrCreateCreate(r) ==
    /\ BagIn(r, in_flight)
    /\ in_flight' = in_flight (-) SetToBag({r})
    /\ IF r.view = "view_lesson"
       THEN /\ validations' = validation_objects_create(r.user, r.lesson)
            /\ UNCHANGED <<certifications, validate_posts>>
       ELSE /\ certifications' = certification_objects_create(
                    r.user, cursuses[lessons[r.lesson].cursus].theme)
            /\ validate_posts' = validate_posts \cup {<<r.user, r.lesson>>}
            /\ UNCHANGED validations
    /\ UNCHANGED <<utilisateurs, catalogue, purchases, session, stripe, checkout_log>>

----------------------------------------------------------------------------
(* Catalogue listing *)

\* What list_cursuses reports of cursus c to user u (None for a visitor who
\* is not logged in): its adjusted_price, its has_purchased_cursus and, for
\* each of its lessons, is_purchased.
list_cursuses_data(u, c) ==
    LET adjusted_price ==
            IF purchased_cursus(u, c) THEN 0
            ELSE IF purchased_lessons(u, c) = {} THEN cursuses[c].price
            ELSE IF remaining_lessons(u, c) # {}
            THEN SumPrices(remaining_lessons(u, c))
            ELSE 0
        has_purchased_cursus ==
            purchased_cursus(u, c) \/ remaining_lessons(u, c) = {}
    IN  [adjusted_price |-> adjusted_price,
         has_purchased_cursus |-> has_purchased_cursus,
         lessons |-> [l \in lessons_of_cursus(c) |->
                        [price |-> lessons[l].price,
                         is_purchased |-> l \in purchased_lessons(u, c)]]]

\* list_cursuses: themes_data, the cursuses of each theme with their data.
list_cursuses(b) ==
    [t \in Themes |->
        [c \in {x \in DOMAIN cursuses : cursuses[x].theme = t} |->
            list_cursuses_data(request_user(b), c)]]

\* list_cursuses renders themes_data, one entry per theme, and writes
\* nothing.
ListCursuses(b) ==
    /\ DOMAIN list_cursuses(b) = Themes
    /\ UNCHANGED vars

----------------------------------------------------------------------------
(* Administration *)

\* LessonAdmin: an administrator adds a lesson to a cursus.
AddLesson(l, c, price) ==
    /\ l \notin DOMAIN lessons
    /\ lessons' = [x \in DOMAIN lessons \cup {l} |->
                     IF x = l THEN [cursus |-> c, price |-> price] ELSE lessons[x]]
    /\ UNCHANGED <<utilisateurs, cursuses, records, session, stripe, validate_posts, checkout_log, in_flight>>

\* UserAdmin: an administrator clears the activation flag of an account.
DeactivateUser(u) ==
    /\ u \in DOMAIN utilisateurs
    /\ utilisateurs[u].is_active
    /\ utilisateurs' = [utilisateurs EXCEPT ![u].is_active = FALSE]
    /\ UNCHANGED <<catalogue, records, session, stripe, validate_posts, checkout_log, in_flight>>

----------------------------------------------------------------------------
(* Specifications *)

\* No history of the checkouts is kept.
NoCheckoutLog == [kept |-> FALSE, cancelled |-> {}, replaced |-> {}]

\* The database after populate_data and the registration of the users:
\* nobody activated, nothing bought.
Init ==
    /\ utilisateurs = [u \in Users |-> [is_active |-> FALSE]]
    /\ cursuses = [c \in CursusIds |->
                     [theme |-> SeedCursusTheme[c], price |-> SeedCursusPrice[c]]]
    /\ lessons = [l \in DOMAIN SeedLessonCursus |->
                    [cursus |-> SeedLessonCursus[l], price |-> SeedLessonPrice[l]]]
    /\ purchases = EmptyBag
    /\ validations = EmptyBag
    /\ certifications = EmptyBag
    /\ session = [b \in Browsers |-> EmptySession]
    /\ stripe = <<>>
    /\ validate_posts = {}
    /\ checkout_log = NoCheckoutLog
    /\ in_flight = EmptyBag

Methods == {"GET", "POST"}

\* The requests that reach the site when the users of visitors[b] are those
\* who use browser b, and the customer's payment at the provider.
Requests(visitors) ==
    \/ \E b \in DOMAIN visitors, u \in Users, ok \in BOOLEAN :
          u \in visitors[b] /\ Activate(b, u, ok)
    \/ \E b \in DOMAIN visitors, u \in Users : u \in visitors[b] /\ Login(b, u)
    \/ \E b \in DOMAIN visitors : UserLogout(b)
    \/ \E b \in DOMAIN visitors, c \in CursusIds, m \in Methods, ok \in BOOLEAN :
          BuyCursus(b, c, m, ok)
    \/ \E b \in DOMAIN visitors, l \in LessonIds, m \in Methods, ok \in BOOLEAN :
          BuyLesson(b, l, m, ok)
    \/ \E sid \in 1..MaxStripeSessions : Pay(sid)
    \/ \E b \in DOMAIN visitors, ok \in BOOLEAN : PaymentSuccess(b, ok)
    \/ \E b \in DOMAIN visitors : PaymentCancel(b)
    \/ \E b \in DOMAIN visitors, l \in LessonIds, m \in Methods, mark \in BOOLEAN :
          ViewLesson(b, l, m, mark)
    \/ \E b \in DOMAIN visitors, l \in LessonIds, m \in Methods : ValidateLesson(b, l, m)
    \/ \E b \in DOMAIN visitors : ListCursuses(b)

\* One user on two browsers: u1 shops from b1 and from b2.
TwoDevices == [b \in Browsers |-> {"u1"}]

\* Two users, each on a browser of their own.
OwnDevice == [b \in Browsers |-> IF b = "b1" THEN {"u1"} ELSE {"u2"}]

\* One user on one browser.
OneDevice == [b \in {"b1"} |-> {"u1"}]

Next == Requests(TwoDevices)

Spec == Init /\ [][Next]_vars

NextUsers == Requests(OwnDevice)

SpecUsers == Init /\ [][NextUsers]_vars

\* An administrator adds lessons to the catalogue while u1 uses the site.
NextAdmin ==
    \/ Requests(OneDevice)
    \/ \E l \in LessonIds, c \in CursusIds : AddLesson(l, c, SeedLessonPrice[l])

SpecAdmin == Init /\ [][NextAdmin]_vars

\* An administrator deactivates accounts while u1 uses the site.
NextAccounts ==
    \/ Requests(OneDevice)
    \/ \E u \in Users : DeactivateUser(u)

SpecAccounts == Init /\ [][NextAccounts]_vars

\* u1 uses the site from one browser, and the history of the checkouts is
\* kept.
InitCheckouts ==
    /\ utilisateurs = [u \in Users |-> [is_active |-> FALSE]]
    /\ cursuses = [c \in CursusIds |->
                     [theme |-> SeedCursusTheme[c], price |-> SeedCursusPrice[c]]]
    /\ lessons = [l \in DOMAIN SeedLessonCursus |->
                    [cursus |-> SeedLessonCursus[l], price |-> SeedLessonPrice[l]]]
    /\ purchases = EmptyBag
    /\ validations = EmptyBag
    /\ certifications = EmptyBag
    /\ session = [b \in Browsers |-> EmptySession]
    /\ stripe = <<>>
    /\ validate_posts = {}
    /\ checkout_log = [NoCheckoutLog EXCEPT !.kept = TRUE]
    /\ in_flight = EmptyBag

NextCheckouts == Requests(OneDevice)

SpecCheckouts == InitCheckouts /\ [][NextCheckouts]_vars

\* The database after populate_data, before anybody registered: the users
\* register, and u1 uses the site from one browser.
InitRegistration ==
    /\ utilisateurs = [u \in {} |-> registration_save]
    /\ cursuses = [c \in CursusIds |->
                     [theme |-> SeedCursusTheme[c], price |-> SeedCursusPrice[c]]]
    /\ lessons = [l \in DOMAIN SeedLessonCursus |->
                    [cursus |-> SeedLessonCursus[l], price |-> SeedLessonPrice[l]]]
    /\ purchases = EmptyBag
    /\ validations = EmptyBag
    /\ certifications = EmptyBag
    /\ session = [b \in Browsers |-> EmptySession]
    /\ stripe = <<>>
    /\ validate_posts = {}
    /\ checkout_log = NoCheckoutLog
    /\ in_flight = EmptyBag

NextRegistration ==
    \/ Requests(OneDevice)
    \/ \E u \in Users, ok \in BOOLEAN : Register(u, ok)

SpecRegistration == InitRegistration /\ [][NextRegistration]_vars

\* u1 shops from one browser, and the payment_success requests of the
\* browser overlap: the provider's redirect is loaded twice.
NextRace ==
    \/ \E b \in DOMAIN OneDevice, u \in Users, ok \in BOOLEAN :
          u \in OneDevice[b] /\ Activate(b, u, ok)
    \/ \E b \in DOMAIN OneDevice, c \in CursusIds, m \in Methods, ok \in BOOLEAN :
          BuyCursus(b, c, m, ok)
    \/ \E b \in DOMAIN OneDevice, l \in LessonIds, m \in Methods, ok \in BOOLEAN :
          BuyLesson(b, l, m, ok)
    \/ \E sid \in 1..MaxStripeSessions : Pay(sid)
    \/ \E b \in DOMAIN OneDevice, ok \in BOOLEAN : PaymentSuccessCheck(b, ok)
    \/ \E r \in DOMAIN in_flight : PaymentSuccessCreate(r)

SpecRace == Init /\ [][NextRace]_vars

\* u1 buys from one browser and works through the lessons, and the
\* mark-completed and validate requests of the browser overlap.
NextProgressRace ==
    \/ \E b \in DOMAIN OneDevice, u \in Users :
          u \in OneDevice[b] /\ Activate(b, u, TRUE)
    \/ \E b \in DOMAIN OneDevice, c \in CursusIds : BuyCursus(b, c, "POST", TRUE)
    \/ \E sid \in 1..MaxStripeSessions : Pay(sid)
    \/ \E b \in DOMAIN OneDevice : PaymentSuccess(b, TRUE)
    \/ \E b \in DOMAIN OneDevice, l \in LessonIds : MarkCompletedLookup(b, l)
    \/ \E b \in DOMAIN OneDevice, l \in LessonIds : ValidateLessonLookup(b, l)
    \/ \E r \in DOMAIN in_flight : GetOrCreateCreate(r)

SpecProgressRace == Init /\ [][NextProgressRace]_vars

\* u1 uses the site from one browser, and comes back from the provider with
\* any query string on the success URL.
NextSuccessUrl ==
    \/ Requests(OneDevice)
    \/ \E b \in DOMAIN OneDevice, query \in Queries, ok \in BOOLEAN :
          PaymentSuccessRequest(b, query, ok)

SpecSuccessUrl == Init /\ [][NextSuccessUrl]_vars

----------------------------------------------------------------------------
(* Properties *)

\* The number of rows of table among the given rows.
RowCount(table, rows) ==
    BagCardinality([r \in rows \cap DOMAIN table |-> table[r]])

PurchaseRows(table, u, kind, id) ==
    RowCount(table, {r \in DOMAIN table : r.utilisateur = u /\ r[kind] = id})

ValidationRows(table, u, l) ==
    RowCount(table, {r \in DOMAIN table : r.utilisateur = u /\ r.lesson = l})

CertificationRows(table, u, t) ==
    RowCount(table, {r \in DOMAIN table : r.utilisateur = u /\ r.theme = t})

\* u is entitled to lesson l: a Purchase row of u names l, or names the
\* cursus of l.
Entitled(u, l) ==
    \/ PurchaseRows(purchases, u, "lesson", l) > 0
    \/ PurchaseRows(purchases, u, "cursus", lessons[l].cursus) > 0

\* A progress view left everything as it was.
NoProgressWritten(r) ==
    /\ r.validations = validations
    /\ r.certifications = certifications
    /\ ~r.validated

\* C1: for every logged-in user u and lesson l, view_lesson and
\* validate_lesson go past their access gate (on to the is_completed query)
\* exactly when a Purchase (u, l) or a Purchase (u, l.cursus) exists;
\* otherwise they redirect to home and neither read nor write progress.
C1_AccessGate ==
    \A b \in Browsers, l \in DOMAIN lessons, m \in Methods, mark \in BOOLEAN :
        LET u == session[b].user
            v == view_lesson(b, l, m, mark)
            w == validate_lesson(b, l, m)
        IN  u # None =>
              /\ (v.progress # "unread") <=> Entitled(u, l)
              /\ (w.progress # "unread") <=> Entitled(u, l)
              /\ ~Entitled(u, l) =>
                    /\ v.to = "home" /\ NoProgressWritten(v)
                    /\ w.to = "home" /\ NoProgressWritten(w)

\* C1 witness: a logged-in user has marked completed a lesson reached only
\* through the Purchase of its cursus, and is refused another lesson.
C1_Witness ==
    \E b \in Browsers, l \in DOMAIN lessons, k \in DOMAIN lessons :
        LET u == session[b].user IN
        /\ u # None
        /\ PurchaseRows(purchases, u, "lesson", l) = 0
        /\ PurchaseRows(purchases, u, "cursus", lessons[l].cursus) = 1
        /\ ValidationRows(validations, u, l) = 1
        /\ ~Entitled(u, k)
        /\ view_lesson(b, k, "POST", TRUE).to = "home"

\* The provider reports the payment session stored in browser b as paid.
StoredSessionPaid(b) ==
    /\ session[b].stripe_session_id \in 1..Len(stripe)
    /\ stripe[session[b].stripe_session_id].payment_status = "paid"

\* C2: payment_success changes the Purchase table only when the provider
\* call returns and reports the stored payment session as paid.
C2_PaidOnly ==
    \A b \in Browsers, retrieve_ok \in BOOLEAN :
        payment_success(b, retrieve_ok).purchases # purchases
            => retrieve_ok /\ StoredSessionPaid(b)

\* C2 witness: a Purchase has been recorded, and a pending checkout whose
\* session is not paid is refused.
C2_Witness ==
    /\ purchases # EmptyBag
    /\ \E b \in Browsers :
          /\ session[b].pending_purchase # NoPending
          /\ ~StoredSessionPaid(b)
          /\ payment_success(b, TRUE).message = "payment_not_finalised"

\* C3: the Purchase table holds at most one row per (user, lesson) and at
\* most one per (user, cursus); confirming a paid session again for a
\* target already recorded leaves the table as it is.
C3_OnePurchasePerTarget ==
    /\ \A u \in Users, l \in LessonIds : PurchaseRows(purchases, u, "lesson", l) <= 1
    /\ \A u \in Users, c \in CursusIds : PurchaseRows(purchases, u, "cursus", c) <= 1
    /\ \A b \in Browsers :
          payment_success(b, TRUE).message = "already_purchased"
              => payment_success(b, TRUE).purchases = purchases

\* C3 witness: payment_success meets a paid session whose target already
\* has its one Purchase row.
C3_Witness ==
    \E b \in Browsers :
        /\ StoredSessionPaid(b)
        /\ payment_success(b, TRUE).message = "already_purchased"
        /\ PurchaseRows(purchases, session[b].user,
                        session[b].pending_purchase.type,
                        session[b].pending_purchase.id) = 1

\* The amount of the cursus Purchase row that payment_success adds for
\* browser b, in hundredths; None when it adds none.
RecordedAmount(b) ==
    LET added == DOMAIN payment_success(b, TRUE).purchases \ DOMAIN purchases
    IN  IF added = {} THEN None ELSE (CHOOSE r \in added : TRUE).amount

\* C4: with the same individually purchased lessons at both steps, the
\* amount buy_cursus puts on the payment session of a cursus equals the
\* amount payment_success records on the Purchase row of that cursus.
C4_ChargedIsRecorded ==
    \A b \in Browsers :
        LET u == session[b].user
            pending_purchase == session[b].pending_purchase
        IN  (/\ pending_purchase.type = "cursus"
             /\ StoredSessionPaid(b)
             /\ payment_success(b, TRUE).message = "payment_succeeded")
            => unit_amount(RecordedAmount(b))
                  = unit_amount(buy_cursus_adjusted_price(u, pending_purchase.id))

\* Every lesson of theme t has a Validation row of u.
AllValidated(u, t) ==
    \A l \in lessons_of_theme(t) : ValidationRows(validations, u, l) > 0

\* C5: with the catalogue fixed, a Certification (u, theme) exists only if
\* the lessons of the theme are exactly the lessons of the theme that have a
\* Validation of u.
C5_CertifiedThemeComplete ==
    \A u \in Users, t \in Themes :
        CertificationRows(certifications, u, t) > 0
            => lessons_of_theme(t)
                  = {l \in lessons_of_theme(t) : ValidationRows(validations, u, l) > 0}

\* C5 witness: a Certification has been issued for a theme with lessons in
\* more than one cursus.
C5_Witness ==
    \E u \in Users, t \in Themes :
        /\ CertificationRows(certifications, u, t) > 0
        /\ \E l, k \in lessons_of_theme(t) : lessons[l].cursus # lessons[k].cursus

\* C6: a validate_lesson POST by u on a lesson of theme t leaves exactly one
\* Certification (u, t) when every lesson of t has a Validation of u, and
\* leaves the Certification table as it was while some lesson lacks one; it
\* touches no other user's or theme's rows.
C6_CertifiedExactlyWhenComplete ==
    \A b \in Browsers, l \in DOMAIN lessons :
        LET u == session[b].user
            t == cursuses[lessons[l].cursus].theme
            r == validate_lesson(b, l, "POST")
        IN  u # None =>
              /\ AllValidated(u, t) =>
                    /\ r.validated
                    /\ CertificationRows(r.certifications, u, t) = 1
              /\ ~AllValidated(u, t) =>
                    /\ r.certifications = certifications
                    /\ CertificationRows(r.certifications, u, t) = 0
              /\ \A v \in Users, s \in Themes :
                    <<v, s>> # <<u, t>> =>
                        CertificationRows(r.certifications, v, s)
                            = CertificationRows(certifications, v, s)

\* C6 witness: after a validate_lesson POST of u in theme t that created no
\* Certification, every lesson of t has a Validation of u and the next POST
\* creates the one row.
C6_Witness ==
    /\ certifications = EmptyBag
    /\ \E b \in Browsers, l \in DOMAIN lessons :
          LET u == session[b].user
              t == cursuses[lessons[l].cursus].theme
              r == validate_lesson(b, l, "POST")
          IN  /\ u # None
              /\ AllValidated(u, t)
              /\ \E k \in lessons_of_theme(t) : <<u, k>> \in validate_posts
              /\ BagCardinality(r.certifications) = 1
              /\ CertificationRows(r.certifications, u, t) = 1

\* C7: a Certification (u, theme) exists only after every lesson of the
\* theme has gone through a validate_lesson POST of u.
C7_CertifiedAfterValidatePosts ==
    \A u \in Users, t \in Themes :
        CertificationRows(certifications, u, t) > 0
            => \A l \in lessons_of_theme(t) : <<u, l>> \in validate_posts

\* C8: a Certification row once present stays, whatever request or
\* catalogue change follows.
C8_CertificationKept ==
    [][\A r \in DOMAIN certifications :
          /\ r \in DOMAIN certifications'
          /\ certifications'[r] >= certifications[r]]_vars

\* C8 witness: a certified user has re-validated a lesson of the theme after
\* a lesson was added to it, and remains certified.
C8_Witness ==
    \E u \in Users, t \in Themes :
        /\ CertificationRows(certifications, u, t) = 1
        /\ ~AllValidated(u, t)
        /\ \E b \in Browsers, l \in lessons_of_theme(t) :
              /\ session[b].user = u
              /\ validate_lesson(b, l, "POST").validated
              /\ validate_lesson(b, l, "POST").certifications = certifications

\* C9: the Certification table holds at most one row per (user, theme).
C9_OneCertificationPerTheme ==
    \A u \in Users, t \in Themes : CertificationRows(certifications, u, t) <= 1

\* C9 witness: a validate_lesson POST on a theme already certified finds the
\* condition met again and the one row in place.
C9_Witness ==
    \E b \in Browsers, l \in DOMAIN lessons :
        LET u == session[b].user
            t == cursuses[lessons[l].cursus].theme
        IN  /\ u # None
            /\ CertificationRows(certifications, u, t) = 1
            /\ validate_lesson(b, l, "POST").message = "certification_earned"
            /\ <<u, l>> \in validate_posts

\* C10: there is at most one Validation row per (user, lesson), and a
\* mark_completed POST on a lesson already completed changes no record.
C10_MarkCompletedIdempotent ==
    /\ \A u \in Users, l \in LessonIds : ValidationRows(validations, u, l) <= 1
    /\ \A b \in Browsers, l \in DOMAIN lessons :
          LET u == session[b].user
              r == view_lesson(b, l, "POST", TRUE)
          IN  (u # None /\ ValidationRows(validations, u, l) > 0)
                  => /\ r.progress = "completed"
                     /\ NoProgressWritten(r)

\* C10 witness: a lesson marked completed is open to a second mark_completed
\* POST, with its one Validation row.
C10_Witness ==
    \E b \in Browsers, l \in DOMAIN lessons :
        /\ session[b].user # None
        /\ ValidationRows(validations, session[b].user, l) = 1
        /\ view_lesson(b, l, "POST", TRUE).progress = "completed"
        /\ view_lesson(b, l, "POST", TRUE).validations = validations

\* C11: a validate_lesson request, GET or POST, of a user with access to
\* a lesson the user has not marked completed is redirected to view_lesson
\* and writes no Validation and no Certification.
C11_ValidateNeedsCompleted ==
    \A b \in Browsers, l \in DOMAIN lessons, m \in Methods :
        LET u == session[b].user
            r == validate_lesson(b, l, m)
        IN  (/\ u # None
             /\ utilisateurs[u].is_active
             /\ Entitled(u, l)
             /\ ValidationRows(validations, u, l) = 0)
            => /\ r.to = "view_lesson"
               /\ r.message = "not_completed"
               /\ NoProgressWritten(r)

\* C11 witness: every other lesson of the theme has its Validation, the
\* lesson itself none, and the POST is sent back to view_lesson.
C11_Witness ==
    \E b \in Browsers, l \in DOMAIN lessons :
        LET u == session[b].user
            t == cursuses[lessons[l].cursus].theme
        IN  /\ u # None
            /\ Entitled(u, l)
            /\ ValidationRows(validations, u, l) = 0
            /\ lessons_of_theme(t) # {l}
            /\ \A k \in lessons_of_theme(t) \ {l} : ValidationRows(validations, u, k) = 1
            /\ validate_lesson(b, l, "POST").to = "view_lesson"
            /\ validate_lesson(b, l, "POST").certifications = EmptyBag

\* C12: a Validation row (u, l) exists exactly when u has validated l, that
\* is, when a validate_lesson POST of u for l has run; a lesson only marked
\* completed has no Validation row.
C12_ValidationIffValidated ==
    \A u \in Users, l \in LessonIds :
        ValidationRows(validations, u, l) > 0 <=> <<u, l>> \in validate_posts

\* The lessons of cursus c without a Purchase row of u.
Unowned(u, c) ==
    {l \in lessons_of_cursus(c) : PurchaseRows(purchases, u, "lesson", l) = 0}

\* u is logged in at b, activated, and has no Purchase of cursus c.
MayBuyCursus(b, c) ==
    /\ session[b].user # None
    /\ utilisateurs[session[b].user].is_active
    /\ PurchaseRows(purchases, session[b].user, "cursus", c) = 0

\* The amount, in hundredths, of the payment session a checkout view
\* created; None when it created none.
SessionAmount(r) ==
    IF Len(r.stripe) = Len(stripe) + 1 THEN r.stripe[Len(r.stripe)].unit_amount
    ELSE None

\* C13: when u owns some but not all lessons of a cursus, and not the
\* cursus, buy_cursus sends the provider the sum of the prices of the
\* lessons of the cursus u does not own.
C13_PartlyOwnedPrice ==
    \A b \in Browsers, c \in DOMAIN cursuses :
        LET u == session[b].user IN
        (/\ MayBuyCursus(b, c)
         /\ Unowned(u, c) # {}
         /\ Unowned(u, c) # lessons_of_cursus(c))
        => SessionAmount(buy_cursus(b, c, "POST", TRUE)) = SumPrices(Unowned(u, c))

\* C13 witness: a cursus checkout is pending for a user who owns one of its
\* lessons, at the price of the other lessons and not the catalogue price.
C13_Witness ==
    \E b \in Browsers :
        LET u == session[b].user
            c == session[b].pending_purchase.id
            sid == session[b].stripe_session_id
        IN  /\ session[b].pending_purchase.type = "cursus"
            /\ MayBuyCursus(b, c)
            /\ Unowned(u, c) # {}
            /\ Unowned(u, c) # lessons_of_cursus(c)
            /\ stripe[sid].unit_amount = SumPrices(Unowned(u, c))
            /\ stripe[sid].unit_amount # cursuses[c].price

\* C14: when u owns none of the lessons of a cursus, buy_cursus sends the
\* provider the catalogue price of the cursus.
C14_NoneOwnedPrice ==
    \A b \in Browsers, c \in DOMAIN cursuses :
        (MayBuyCursus(b, c) /\ Unowned(session[b].user, c) = lessons_of_cursus(c))
        => SessionAmount(buy_cursus(b, c, "POST", TRUE)) = cursuses[c].price

\* C14 witness: a cursus checkout is pending for a user who owns none of
\* its lessons, at the catalogue price, which is not the sum of the lessons.
C14_Witness ==
    \E b \in Browsers :
        LET u == session[b].user
            c == session[b].pending_purchase.id
            sid == session[b].stripe_session_id
        IN  /\ session[b].pending_purchase.type = "cursus"
            /\ MayBuyCursus(b, c)
            /\ lessons_of_cursus(c) # {}
            /\ Unowned(u, c) = lessons_of_cursus(c)
            /\ stripe[sid].unit_amount = cursuses[c].price
            /\ stripe[sid].unit_amount # SumPrices(lessons_of_cursus(c))

\* C15: when u owns every lesson of a cursus individually, and not the
\* cursus, the price buy_cursus computes for the cursus is 0.
C15_AllOwnedPrice ==
    \A b \in Browsers, c \in DOMAIN cursuses :
        (/\ MayBuyCursus(b, c)
         /\ lessons_of_cursus(c) # {}
         /\ Unowned(session[b].user, c) = {})
        => SessionAmount(buy_cursus(b, c, "POST", TRUE)) = 0

\* A cursus of catalogue price 50.00 with two lessons of 26.00 each.
TwoLessonsAt26(c) ==
    /\ cursuses[c].price = 5000
    /\ Cardinality(lessons_of_cursus(c)) = 2
    /\ \A l \in lessons_of_cursus(c) : lessons[l].price = 2600

\* C16: for a cursus of price 50.00 with two lessons of 26.00 each, buying
\* the cursus costs 52.00 when u owns none of its lessons and 26.00 when u
\* owns one of them.
C16_SeededPrices ==
    \A b \in Browsers, c \in DOMAIN cursuses :
        LET u == session[b].user
            price == SessionAmount(buy_cursus(b, c, "POST", TRUE))
        IN  (MayBuyCursus(b, c) /\ TwoLessonsAt26(c))
            => /\ Cardinality(Unowned(u, c)) = 2 => price = 5200
               /\ Cardinality(Unowned(u, c)) = 1 => price = 2600

\* A checkout view left the provider, the session and the Purchase table
\* as they were.
NoCheckoutEntered(b, r) ==
    /\ r.stripe = stripe
    /\ r.session = session[b]
    /\ r.purchases = purchases

\* C17: buy_lesson creates no payment session and stores no pending intent
\* when the user has a Purchase of the lesson or of its cursus, and
\* buy_cursus none when the user has a Purchase of the cursus; both redirect
\* to the catalogue listing.
C17_NoCheckoutForOwned ==
    \A b \in Browsers, m \in Methods, ok \in BOOLEAN :
        LET u == session[b].user IN
        (u # None /\ utilisateurs[u].is_active) =>
            /\ \A l \in DOMAIN lessons :
                  Entitled(u, l) =>
                      /\ NoCheckoutEntered(b, buy_lesson(b, l, m, ok))
                      /\ buy_lesson(b, l, m, ok).to = "list_cursuses"
            /\ \A c \in DOMAIN cursuses :
                  PurchaseRows(purchases, u, "cursus", c) > 0 =>
                      /\ NoCheckoutEntered(b, buy_cursus(b, c, m, ok))
                      /\ buy_cursus(b, c, m, ok).to = "list_cursuses"

\* C17 witness: a user who owns a cursus, and one lesson of another cursus,
\* is sent to the listing when buying that cursus, a lesson of it, or the
\* lesson owned.
C17_Witness ==
    \E b \in Browsers, l, k \in DOMAIN lessons :
        LET u == session[b].user
            c == lessons[l].cursus
        IN  /\ u # None
            /\ PurchaseRows(purchases, u, "cursus", c) = 1
            /\ PurchaseRows(purchases, u, "lesson", l) = 0
            /\ PurchaseRows(purchases, u, "lesson", k) = 1
            /\ buy_cursus(b, c, "POST", TRUE).to = "list_cursuses"
            /\ buy_lesson(b, l, "POST", TRUE).to = "list_cursuses"
            /\ buy_lesson(b, k, "POST", TRUE).to = "list_cursuses"

\* C18: a buy_lesson or buy_cursus request of a visitor who is not logged
\* in, or whose account is not activated, creates no payment session, stores
\* no pending intent and creates no Purchase; the former is redirected to
\* login and the latter to home.
C18_NoCheckoutWithoutAccount ==
    \A b \in Browsers, m \in Methods, ok \in BOOLEAN :
        LET u == session[b].user
            to == IF u = None THEN "login" ELSE "home"
        IN  (u = None \/ ~utilisateurs[u].is_active) =>
              /\ \A l \in DOMAIN lessons :
                    /\ NoCheckoutEntered(b, buy_lesson(b, l, m, ok))
                    /\ buy_lesson(b, l, m, ok).to = to
              /\ \A c \in DOMAIN cursuses :
                    /\ NoCheckoutEntered(b, buy_cursus(b, c, m, ok))
                    /\ buy_cursus(b, c, m, ok).to = to

\* C18 witness: one browser has nobody logged in and is sent to login;
\* another holds the session of a deactivated account and is sent home.
C18_Witness ==
    \E a, b \in Browsers, l \in DOMAIN lessons :
        /\ session[a].user = None
        /\ buy_lesson(a, l, "POST", TRUE).to = "login"
        /\ session[b].user # None
        /\ ~utilisateurs[session[b].user].is_active
        /\ buy_lesson(b, l, "POST", TRUE).to = "home"
        /\ buy_cursus(b, lessons[l].cursus, "POST", TRUE).to = "home"

\* C19: a step that changes the Purchase table creates no payment session
\* and is a payment_success of a browser whose stored session is paid; the
\* steps of buy_lesson and buy_cursus leave the table as it was.
C19_OnlyPaymentSuccessRecords ==
    [][purchases' # purchases =>
          /\ stripe' = stripe
          /\ \E b \in Browsers :
                /\ StoredSessionPaid(b)
                /\ purchases' = payment_success(b, TRUE).purchases
                /\ session' = [session EXCEPT ![b] = payment_success(b, TRUE).session]]_vars

\* C19 witness: a lesson checkout and a cursus checkout have been entered,
\* one of them paid, and the Purchase table is still empty.
C19_Witness ==
    /\ purchases = EmptyBag
    /\ \E i, j \in 1..Len(stripe) :
          /\ stripe[i].success_url.type = "lesson"
          /\ stripe[j].success_url.type = "cursus"
          /\ stripe[j].payment_status = "paid"
    /\ \E b \in Browsers : session[b].pending_purchase # NoPending

\* Browser b carries the state of a pending checkout.
HasPending(b) ==
    /\ session[b].stripe_session_id # NoSessionId
    /\ session[b].pending_purchase # NoPending

\* The session a view returns carries no state of a pending checkout.
Cleared(s) ==
    /\ s.stripe_session_id = NoSessionId
    /\ s.pending_purchase = NoPending

\* C20 as claimed: whatever the outcome, payment_success clears the state
\* of the pending checkout it was called with.
C20_ClearedWhateverOutcome ==
    \A b \in Browsers, retrieve_ok \in BOOLEAN :
        HasPending(b) => Cleared(payment_success(b, retrieve_ok).session)

\* C20: a payment_success called with the state of a pending checkout clears
\* that state, and keeps the user logged in, when it ends with the Purchase
\* newly recorded or found already present, which is how it ends when the
\* provider reports the session paid and the target is in the catalogue; when
\* the session is not paid or the provider call fails, it leaves the session
\* and the Purchase table as they were.
C20_ClearedAfterRecording ==
    \A b \in Browsers, retrieve_ok \in BOOLEAN :
        LET r == payment_success(b, retrieve_ok)
            target == session[b].pending_purchase
        IN  HasPending(b) =>
              /\ r.message \in {"payment_succeeded", "already_purchased"} =>
                    /\ Cleared(r.session)
                    /\ r.session.user = session[b].user
              /\ (/\ retrieve_ok
                  /\ StoredSessionPaid(b)
                  /\ target.id \in DOMAIN lessons \cup DOMAIN cursuses)
                    => r.message \in {"payment_succeeded", "already_purchased"}
              /\ ~(retrieve_ok /\ StoredSessionPaid(b)) =>
                    /\ r.message \in {"payment_not_finalised", "stripe_error"}
                    /\ r.session = session[b]
                    /\ r.purchases = purchases

\* C20 witness: a paid pending checkout for a target bought meanwhile is
\* cleared on confirmation, and is kept when the provider call fails.
C20_Witness ==
    \E b \in Browsers :
        /\ HasPending(b)
        /\ StoredSessionPaid(b)
        /\ payment_success(b, TRUE).message = "already_purchased"
        /\ Cleared(payment_success(b, TRUE).session)
        /\ payment_success(b, FALSE).message = "stripe_error"
        /\ ~Cleared(payment_success(b, FALSE).session)

\* C21: a payment_success called without the payment session id or without
\* the pending intent in its session calls no provider (its answer does not
\* depend on the provider) and leaves the provider's sessions, the session
\* and the Purchase table as they were.
C21_NothingWithoutPending ==
    \A b \in Browsers, retrieve_ok \in BOOLEAN :
        LET r == payment_success(b, retrieve_ok) IN
        ~HasPending(b) =>
            /\ r.to = "home"
            /\ r.message = "no_pending_purchase"
            /\ NoCheckoutEntered(b, r)

\* C21 witness: the pending state of a confirmed checkout is gone, and a
\* further confirmation, with the provider failing, is answered without it.
C21_Witness ==
    \E b \in Browsers :
        /\ session[b].user # None
        /\ ~HasPending(b)
        /\ PurchaseRows(purchases, session[b].user, "lesson", "l1") = 1
        /\ payment_success(b, FALSE).message = "no_pending_purchase"
        /\ payment_success(b, FALSE).purchases = purchases

\* C22: when the provider call of buy_lesson or buy_cursus fails, the view
\* answers with a redirect to home and an error message, writes no Purchase,
\* creates no payment session and leaves the session, with whatever pending
\* intent it held, exactly as it was.
C22_ProviderFailureCaught ==
    \A b \in Browsers :
        LET u == session[b].user IN
        (u # None /\ utilisateurs[u].is_active) =>
            /\ \A l \in DOMAIN lessons :
                  LET r == buy_lesson(b, l, "POST", FALSE) IN
                  /\ NoCheckoutEntered(b, r)
                  /\ ~Entitled(u, l) => r.to = "home" /\ r.message = "payment_error"
            /\ \A c \in DOMAIN cursuses :
                  LET r == buy_cursus(b, c, "POST", FALSE) IN
                  /\ NoCheckoutEntered(b, r)
                  /\ PurchaseRows(purchases, u, "cursus", c) = 0
                        => r.to = "home" /\ r.message = "payment_error"

\* C22 witness: a browser holds the pending intent of a lesson checkout, and
\* a cursus checkout whose provider call fails leaves that intent in place.
C22_Witness ==
    \E b \in Browsers, c \in DOMAIN cursuses :
        /\ HasPending(b)
        /\ session[b].pending_purchase.type = "lesson"
        /\ buy_cursus(b, c, "POST", FALSE).message = "payment_error"
        /\ buy_cursus(b, c, "POST", FALSE).session = session[b]
        /\ buy_lesson(b, "l3", "POST", FALSE).message = "payment_error"

\* C23: once a checkout has been cancelled (payment_cancel while its payment
\* session was pending and unpaid), no request records a Purchase for it: a
\* payment_success on the cancelled payment session writes nothing.
C23_CancelledIsTerminal ==
    \A b \in Browsers :
        session[b].stripe_session_id \in checkout_log.cancelled
            => payment_success(b, TRUE).purchases = purchases

\* Every row of table before is in table after, as many times at least.
RowsKept(before, after) ==
    \A r \in DOMAIN before : r \in DOMAIN after /\ after[r] >= before[r]

\* C24: through the purchase, finalize, cancel, mark-completed and validate
\* requests, a user with access to a lesson keeps it, and no Purchase,
\* Validation or Certification row is removed or changed.
C24_EntitlementPermanent ==
    [][/\ \A u \in Users, l \in DOMAIN lessons : Entitled(u, l) => Entitled(u, l)'
       /\ RowsKept(purchases, purchases')
       /\ RowsKept(validations, validations')
       /\ RowsKept(certifications, certifications')]_vars

\* C24 witness: a user who bought a lesson and later its cursus holds both
\* Purchase rows, and the Validation of the lesson.
C24_Witness ==
    \E u \in Users, l \in DOMAIN lessons :
        /\ PurchaseRows(purchases, u, "lesson", l) = 1
        /\ PurchaseRows(purchases, u, "cursus", lessons[l].cursus) = 1
        /\ ValidationRows(validations, u, l) = 1

\* C25: for every logged-in, activated user and every cursus the user has
\* not purchased, the adjusted price list_cursuses reports is the price
\* buy_cursus sends to the provider in the same state.
C25_ListedPriceIsCharged ==
    \A b \in Browsers, c \in DOMAIN cursuses :
        MayBuyCursus(b, c) =>
            unit_amount(list_cursuses(b)[cursuses[c].theme][c].adjusted_price)
                = SessionAmount(buy_cursus(b, c, "POST", TRUE))

\* C26: list_cursuses reports a lesson as purchased exactly when the user has
\* a Purchase of the lesson or of its cursus, and reports a cursus as
\* purchased only when the user has a Purchase of the cursus.
C26_ListedAsEntitled ==
    \A b \in Browsers, c \in DOMAIN cursuses :
        LET u == session[b].user
            data == list_cursuses(b)[cursuses[c].theme][c]
        IN  u # None =>
              /\ \A l \in lessons_of_cursus(c) :
                    data.lessons[l].is_purchased <=> Entitled(u, l)
              /\ data.has_purchased_cursus
                    => PurchaseRows(purchases, u, "cursus", c) > 0

\* The users whose activation flag is set.
ActiveUsers(table) == {u \in DOMAIN table : table[u].is_active}

\* C27: a user created by registration is inactive; an activate request with
\* an unknown user id or an invalid token leaves every activation flag as it
\* was, one with a valid token sets the flag of the user of the link only;
\* and a flag is set in no other step than such an activate request.
C27_ActivatedByTokenOnly ==
    /\ [](\A b \in Browsers, uid \in Users, token_ok \in BOOLEAN :
            LET after == activate(b, uid, token_ok).utilisateurs IN
            IF uid \in DOMAIN utilisateurs /\ token_ok
            THEN ActiveUsers(after) = ActiveUsers(utilisateurs) \cup {uid}
            ELSE after = utilisateurs)
    /\ [][\A u \in DOMAIN utilisateurs' :
            /\ u \notin DOMAIN utilisateurs => ~utilisateurs'[u].is_active
            /\ u \in ActiveUsers(utilisateurs') \ ActiveUsers(utilisateurs)
                  => \E b \in Browsers : Activate(b, u, TRUE)]_vars

\* C27 witness: u1 and u2 registered, u1 activated from their link and u2
\* still inactive.
C27_Witness ==
    /\ DOMAIN utilisateurs = Users
    /\ ActiveUsers(utilisateurs) = {"u1"}
    /\ session["b1"].user = "u1"

\* C28: whatever the interleaving of the checkout requests of a user over
\* the browsers, no step records a Purchase of a lesson for a user who, when
\* the step is taken, holds a Purchase of the cursus of that lesson.
C28_NoLessonRowUnderCursus ==
    [][\A u \in Users, l \in DOMAIN lessons :
          PurchaseRows(purchases', u, "lesson", l) > PurchaseRows(purchases, u, "lesson", l)
              => ~purchased_cursus(u, lessons[l].cursus)]_vars

\* C29: a payment session that was replaced in its browser by a later
\* checkout and is paid has its Purchase: the user holds a Purchase of its
\* target, or the next payment_success of the user records one.
C29_ReplacedSessionRecorded ==
    \A entry \in checkout_log.replaced :
        LET a == entry[1]
            u == entry[2]
            target == stripe[a].success_url
        IN  stripe[a].payment_status = "paid" =>
              \/ PurchaseRows(purchases, u, target.type, target.id) > 0
              \/ \E b \in Browsers :
                    /\ session[b].user = u
                    /\ PurchaseRows(payment_success(b, TRUE).purchases, u,
                                    target.type, target.id) > 0

\* C30: when the payment_success requests for a paid payment session
\* overlap, their existence checks and creates interleaved, the user holds
\* at most one Purchase row of the target of the payment session.
C30_OneRowPerPaidSession ==
    \A u \in Users, sid \in 1..Len(stripe) :
        stripe[sid].payment_status = "paid" =>
            PurchaseRows(purchases, u, stripe[sid].success_url.type,
                         stripe[sid].success_url.id) <= 1

\* C31: when the mark-completed requests, and the validate_lesson POSTs, of
\* a user overlap, their lookups and creates interleaved, there is at most
\* one Validation row per (user, lesson) and at most one Certification row
\* per (user, theme).
C31_OneRowWhenOverlapping ==
    /\ \A u \in Users, l \in LessonIds : ValidationRows(validations, u, l) <= 1
    /\ \A u \in Users, t \in Themes : CertificationRows(certifications, u, t) <= 1

\* The target a Purchase row references, as a pending intent names it.
RowTarget(row) ==
    IF row.cursus # None THEN [type |-> "cursus", id |-> row.cursus]
    ELSE [type |-> "lesson", id |-> row.lesson]

\* The rows payment_success adds to the Purchase table for browser b.
RowsAdded(b) ==
    LET after == payment_success(b, TRUE).purchases IN
    {row \in DOMAIN after : after[row] > CopiesIn(row, purchases)}

\* C32: the two keys of a pending checkout are in the session together or
\* not at all, and the stored intent is the target the stored payment
\* session was created for; a Purchase that payment_success writes is for
\* the user of the session and for the target of the paid session, and
\* every Purchase row references a lesson or a cursus and not both.
C32_IntentMatchesSession ==
    /\ \A b \in Browsers :
          LET sid == session[b].stripe_session_id IN
          /\ (sid = NoSessionId) <=> (session[b].pending_purchase = NoPending)
          /\ HasPending(b) =>
                /\ sid \in 1..Len(stripe)
                /\ stripe[sid].success_url = session[b].pending_purchase
          /\ \A row \in RowsAdded(b) :
                /\ StoredSessionPaid(b)
                /\ row.utilisateur = session[b].user
                /\ RowTarget(row) = stripe[sid].success_url
    /\ \A row \in DOMAIN purchases : (row.lesson = None) # (row.cursus = None)

\* C32 witness: a Purchase is recorded, and payment_success is about to
\* record the paid session of a pending checkout of the other kind.
C32_Witness ==
    \E b \in Browsers, row \in DOMAIN purchases :
        /\ StoredSessionPaid(b)
        /\ \E added \in RowsAdded(b) : RowTarget(added).type # RowTarget(row).type

\* C33: every Validation (u, l) is of a user entitled to l, and every
\* Certification (u, theme) of a user entitled to every lesson of the theme;
\* view_lesson writes a Validation only for a logged-in, activated user
\* entitled to the lesson.
C33_ProgressRequiresEntitlement ==
    /\ \A u \in Users, l \in DOMAIN lessons :
          ValidationRows(validations, u, l) > 0 => Entitled(u, l)
    /\ \A u \in Users, t \in Themes :
          CertificationRows(certifications, u, t) > 0
              => \A l \in lessons_of_theme(t) : Entitled(u, l)
    /\ \A b \in Browsers, l \in DOMAIN lessons, m \in Methods, mark \in BOOLEAN :
          LET u == session[b].user IN
          view_lesson(b, l, m, mark).validations # validations
              => /\ u # None
                 /\ utilisateurs[u].is_active
                 /\ Entitled(u, l)

\* C33 witness: a user holds a Certification, and the account, deactivated
\* since, is refused by view_lesson on a lesson it is entitled to.
C33_Witness ==
    \E b \in Browsers, l \in DOMAIN lessons :
        LET u == session[b].user IN
        /\ u # None
        /\ CertificationRows(certifications, u, cursuses[lessons[l].cursus].theme) > 0
        /\ Entitled(u, l)
        /\ ~utilisateurs[u].is_active
        /\ view_lesson(b, l, "POST", TRUE).message = "account_not_activated"

\* has_access of view_lesson, read from Purchase table table.
EntitledIn(table, u, l) ==
    \/ PurchaseRows(table, u, "lesson", l) > 0
    \/ PurchaseRows(table, u, "cursus", lessons[l].cursus) > 0

\* C34: when the pending intent is in the session and the provider reports
\* the stored payment session as paid, the Purchase table payment_success
\* leaves gives the user access to the lesson of a lesson intent, and to
\* every lesson of the cursus of a cursus intent.
C34_RecordedFromPaid ==
    \A b \in Browsers :
        LET u == session[b].user
            target == session[b].pending_purchase
            after == payment_success(b, TRUE).purchases
        IN  (HasPending(b) /\ StoredSessionPaid(b)) =>
              IF target.type = "lesson"
              THEN EntitledIn(after, u, target.id)
              ELSE \A l \in lessons_of_cursus(target.id) : EntitledIn(after, u, l)

\* C34 witness: the user holds the Purchase of a lesson from a checkout
\* recorded earlier, and a paid cursus checkout is pending whose cursus has
\* a lesson the user has no access to yet.
C34_Witness ==
    \E b \in Browsers :
        /\ HasPending(b) /\ StoredSessionPaid(b)
        /\ session[b].pending_purchase.type = "cursus"
        /\ \E l \in lessons_of_cursus(session[b].pending_purchase.id) :
              ~Entitled(session[b].user, l)
        /\ \E l \in DOMAIN lessons :
              PurchaseRows(purchases, session[b].user, "lesson", l) > 0

\* The rows payment_success adds to the Purchase table for a request of
\* browser b with query string query.
RowsAddedFor(b, query) ==
    LET after == payment_success_request(b, query, TRUE).purchases IN
    {row \in DOMAIN after : after[row] > CopiesIn(row, purchases)}

====
